---- MODULE Spec2Model ----
(***************************************************************************)
(* Model of the gossh/valor fleet command runner.                          *)
(*                                                                         *)
(* main (src/main.go) is the driver: flag checks, host-list parsing, the   *)
(* routine count, host-key callback, authentication methods, the choice    *)
(* between script and commands.  NewServerList and execute                 *)
(* (src/unnamed/part_000) are the host-list parser and the dispatcher the  *)
(* driver runs: worker start, the producer goroutine, the collector loop   *)
(* and the report.  The worker loop (Executor.Run) is not part of the      *)
(* sources at hand; it follows section 4.6 of the design.  load            *)
(* (src/unnamed/part_000) is the earlier driver of the same dispatcher;    *)
(* of it the model takes the script read that precedes execute.            *)
(*                                                                         *)
(* A panic (wg.Add with a negative count) ends the process with status 2.  *)
(* A collector that waits for a response no goroutine will send is a       *)
(* state with no step.                                                     *)
(*                                                                         *)
(* Strings are sequences of one-character strings.  Jobs and responses     *)
(* carry, beside the host string that the channel carries, the position    *)
(* of the host in the host list (idx): a history value no step reads to    *)
(* decide anything.                                                        *)
(***************************************************************************)
EXTENDS Integers, Sequences, FiniteSets, TLC

\* ------------------------------------------------------------- bounds
MaxLen == 2
MaxProcs == 2
MaxCliLen == 1
MaxCap == 1      \* largest channel capacity of the scaled-down runs

\* ------------------------------------------------- program constants
JobChannelCap == 100
ResponseChannelCap == 100

Alphabet == {"a", " ", ","}

Strs(n) == UNION {[1..k -> Alphabet] : k \in 0..n}

ProcsValues == {-2, -1} \cup (0..MaxProcs)

VARIABLES
  flags,      \* the parsed command-line flags
  env,        \* what the run finds outside itself: arguments, files, agent
  configPrompts, \* history: the password prompts made while configuring
  chanCap,    \* the capacities of JobChannel and ResponseChannel
  mainpc,     \* where main is
  exitCode,   \* the process exit status, -1 while it runs
  servers,    \* ServerList
  numProcs,   \* Config.NumProcs, set by Routines
  hostKeyCallback,
  auth,       \* sshAuthMethods
  threads,    \* execute's threads
  started,    \* the number of worker goroutines started
  prodIdx,    \* how many hosts the producer has put on JobChannel
  jobs,       \* JobChannel
  jobsClosed,
  resps,      \* ResponseChannel
  wpc,        \* each worker's position
  wjob,       \* the job a worker holds
  collected,  \* the collector's loop counter i
  results,    \* the collector's results
  dequeued,   \* history: the host-list positions dequeued so far, in order
  contacted,  \* history: the host-list positions a connection was opened to
  failed      \* history: the host-list positions whose connect or execute failed

vars == <<flags, env, configPrompts, chanCap, mainpc, exitCode, servers, numProcs, hostKeyCallback, auth,
          threads, started, prodIdx, jobs, jobsClosed, resps, wpc, wjob, collected,
          results, dequeued, contacted, failed>>

poolVars == <<threads, started, prodIdx, jobs, jobsClosed, resps, wpc, wjob,
              collected, results, dequeued, contacted, failed>>

NoJob == [idx |-> 0, host |-> <<>>, err |-> "none"]

\* ------------------------------------------------------ pure functions

\* strings.Split(arg, ","): the pieces between the commas, at least one.
RECURSIVE SplitFrom(_, _, _)
SplitFrom(s, i, cur) ==
  IF i > Len(s) THEN <<cur>>
  ELSE IF s[i] = "," THEN <<cur>> \o SplitFrom(s, i + 1, <<>>)
  ELSE SplitFrom(s, i + 1, Append(cur, s[i]))

\* NewServerList: the split, and always a nil error.
NewServerList(arg) == [list |-> SplitFrom(arg, 1, <<>>), err |-> FALSE]

\* Routines' argument: main.go's choice of the routine count.
RoutinesArg(procsFlag, n) ==
  IF procsFlag = -1 \/ n < procsFlag THEN n ELSE procsFlag

\* A thread count that ignores the configured routine count.
ThreadsAll(np, n) == n

\* execute's threads.
Threads(np, n) == IF n < np THEN n ELSE np

\* A host-key step that goes on when known_hosts does not parse.
HostKeyNeverFatal(f, e) == FALSE

\* knownhosts.New fails and main calls log.Fatal.
HostKeyFatal(f, e) == ~f.strictHostCheckFlag /\ ~e.knownHostsOk

\* sshPrivateKey calls log.Fatal: an explicit file that cannot be read, or any
\* file that was read and cannot be parsed.
PrivateKeyFatal(f, e) ==
  \/ f.identityFileFlag /\ ~e.keyReadable
  \/ e.keyReadable /\ ~e.keyParsable

\* sshAgent(): nil when the agent socket cannot be dialled.
sshAgent(e) == IF e.agentUp THEN "agent" ELSE "nil"

\* sshPrivateKey(identityFile), when it returns.
sshPrivateKey(f, e) == IF e.keyReadable THEN "publickey" ELSE "nil"

\* sshPassword()
sshPassword == "password"

\* ---------------------------------------------------------------- Init

FlagSets(procs) ==
  [helpFlag : BOOLEAN, versionFlag : BOOLEAN, identityFileFlag : BOOLEAN,
   scriptFlag : BOOLEAN, strictHostCheckFlag : BOOLEAN, procsFlag : procs,
   userFlag : BOOLEAN]

EnvSets(raws) ==
  [nargs : 0..2, hostArg : raws, knownHostsOk : BOOLEAN, keyReadable : BOOLEAN,
   keyParsable : BOOLEAN, agentUp : BOOLEAN, scriptReadable : BOOLEAN,
   driver : {"main", "load"}]

\* A run whose configuration is in order: the host list and procs vary.
PoolInputs ==
  /\ flags \in FlagSets(ProcsValues)
  /\ ~flags.helpFlag /\ ~flags.versionFlag /\ ~flags.identityFileFlag
  /\ ~flags.scriptFlag /\ ~flags.strictHostCheckFlag /\ flags.userFlag
  /\ env \in EnvSets(Strs(MaxLen))
  /\ env.driver = "main"
  /\ env.nargs = 2 /\ env.knownHostsOk /\ env.keyReadable /\ env.keyParsable
  /\ env.agentUp /\ env.scriptReadable

\* Any configuration, with a short host list and one routine, under either
\* driver: main of main.go, or load of part_000 (the only one that reads the
\* user flag).
CliInputs ==
  /\ flags \in FlagSets({1})
  /\ env \in EnvSets(Strs(MaxCliLen))
  /\ env.driver = "main" => flags.userFlag
  /\ env.keyParsable \/ env.keyReadable   \* an unread file has no parse result
  /\ env.nargs = 0 => env.hostArg = <<>>

\* The state after construction, but for the channels.
Configured ==
  /\ PoolInputs \/ CliInputs
  /\ mainpc = IF env.driver = "load" THEN "l_flags" ELSE "help"
  /\ configPrompts = 0
  /\ exitCode = -1
  /\ servers = <<>>
  /\ numProcs = 0
  /\ hostKeyCallback = "unset"
  /\ auth = <<>>
  /\ threads = 0
  /\ started = 0
  /\ prodIdx = 0
  /\ jobs = <<>>
  /\ jobsClosed = FALSE
  /\ resps = <<>>
  /\ wpc = <<>>
  /\ wjob = <<>>
  /\ collected = 0
  /\ results = <<>>
  /\ dequeued = <<>>
  /\ contacted = {}
  /\ failed = {}

Init ==
  /\ Configured
  /\ chanCap = [job |-> JobChannelCap, resp |-> ResponseChannelCap]

\* The same runs with both channels made with a small capacity, so that a
\* host list longer than the capacity fits the bounds.
CapInit ==
  /\ Configured
  /\ chanCap \in [job : 1..MaxCap, resp : 1..MaxCap]

\* ------------------------------------------------------------ main

\* usage(flagSet, code, ...) and log.Fatal end the process.
Exit(code) == mainpc' = "exited" /\ exitCode' = code

MainHelp ==
  /\ mainpc = "help"
  /\ IF flags.helpFlag THEN Exit(0)
     ELSE mainpc' = "version" /\ UNCHANGED exitCode
  /\ UNCHANGED <<flags, env, configPrompts, chanCap, servers, numProcs, hostKeyCallback, auth, poolVars>>

MainVersion ==
  /\ mainpc = "version"
  /\ IF flags.versionFlag THEN Exit(0)
     ELSE mainpc' = "args" /\ UNCHANGED exitCode
  /\ UNCHANGED <<flags, env, configPrompts, chanCap, servers, numProcs, hostKeyCallback, auth, poolVars>>

MainArgs ==
  /\ mainpc = "args"
  /\ IF env.nargs < 1 THEN Exit(2) /\ UNCHANGED servers
     ELSE LET r == NewServerList(env.hostArg) IN
          IF r.err THEN Exit(3) /\ UNCHANGED servers
          ELSE servers' = r.list /\ mainpc' = "routines" /\ UNCHANGED exitCode
  /\ UNCHANGED <<flags, env, configPrompts, chanCap, numProcs, hostKeyCallback, auth, poolVars>>

MainRoutines ==
  /\ mainpc = "routines"
  /\ numProcs' = RoutinesArg(flags.procsFlag, Len(servers))
  /\ mainpc' = "hostkey"
  /\ UNCHANGED <<flags, env, configPrompts, chanCap, exitCode, servers, hostKeyCallback, auth, poolVars>>

MainHostKey ==
  /\ mainpc = "hostkey"
  /\ IF HostKeyFatal(flags, env) THEN Exit(1) /\ UNCHANGED hostKeyCallback
     ELSE /\ hostKeyCallback' =
               IF flags.strictHostCheckFlag THEN "insecure" ELSE "knownhosts"
          /\ mainpc' = "auth" /\ UNCHANGED exitCode
  /\ UNCHANGED <<flags, env, configPrompts, chanCap, servers, numProcs, auth, poolVars>>

MainAuth ==
  /\ mainpc = "auth"
  /\ IF PrivateKeyFatal(flags, env) THEN Exit(1) /\ UNCHANGED auth
     ELSE /\ auth' = <<sshAgent(env), sshPrivateKey(flags, env), sshPassword>>
          /\ mainpc' = "select" /\ UNCHANGED exitCode
  /\ UNCHANGED <<flags, env, configPrompts, chanCap, servers, numProcs, hostKeyCallback, poolVars>>

MainSelect ==
  /\ mainpc = "select"
  /\ IF flags.scriptFlag THEN mainpc' = "script" /\ UNCHANGED exitCode
     ELSE IF env.nargs > 1 THEN mainpc' = "execute" /\ UNCHANGED exitCode
     ELSE Exit(3)
  /\ UNCHANGED <<flags, env, configPrompts, chanCap, servers, numProcs, hostKeyCallback, auth, poolVars>>

\* NewScriptExecutor / ExecuteScript: the script is read before any dispatch, and
\* a script that cannot be read ends the run through log.Fatal.
MainScript ==
  /\ mainpc = "script"
  /\ IF ~env.scriptReadable THEN Exit(1)
     ELSE mainpc' = "execute" /\ UNCHANGED exitCode
  /\ UNCHANGED <<flags, env, configPrompts, chanCap, servers, numProcs, hostKeyCallback, auth, poolVars>>

\* ------------------------------------------------------------ load

loadFrame == <<flags, env, chanCap, numProcs, poolVars>>

\* The stored-password method of load: its callback returns the password read
\* while configuring.
storedPassword == "storedpassword"

\* load: help, version, user.
LoadFlags ==
  /\ mainpc = "l_flags"
  /\ IF flags.helpFlag \/ flags.versionFlag THEN Exit(0)
     ELSE IF ~flags.userFlag THEN Exit(1)
     ELSE mainpc' = "l_args" /\ UNCHANGED exitCode
  /\ UNCHANGED <<loadFrame, configPrompts, servers, hostKeyCallback, auth>>

\* load: the host-list argument.
LoadArgs ==
  /\ mainpc = "l_args"
  /\ IF env.nargs < 1 THEN Exit(2) /\ UNCHANGED servers
     ELSE LET r == NewServerList(env.hostArg) IN
          IF r.err THEN Exit(3) /\ UNCHANGED servers
          ELSE servers' = r.list /\ mainpc' = "l_executor" /\ UNCHANGED exitCode
  /\ UNCHANGED <<loadFrame, configPrompts, hostKeyCallback, auth>>

\* load: the channels and the executor, a script executor (which reads the
\* script) or a command executor.
LoadExecutor ==
  /\ mainpc = "l_executor"
  /\ IF flags.scriptFlag
     THEN IF ~env.scriptReadable THEN Exit(1)
          ELSE mainpc' = "l_hostkey" /\ UNCHANGED exitCode
     ELSE IF env.nargs > 1 THEN mainpc' = "l_hostkey" /\ UNCHANGED exitCode
     ELSE Exit(3)
  /\ UNCHANGED <<loadFrame, configPrompts, servers, hostKeyCallback, auth>>

\* load: the host-key callback.
LoadHostKey ==
  /\ mainpc = "l_hostkey"
  /\ IF HostKeyFatal(flags, env) THEN Exit(1) /\ UNCHANGED hostKeyCallback
     ELSE /\ hostKeyCallback' =
               IF flags.strictHostCheckFlag THEN "insecure" ELSE "knownhosts"
          /\ mainpc' = "l_auth" /\ UNCHANGED exitCode
  /\ UNCHANGED <<loadFrame, configPrompts, servers, auth>>

\* load: the one authentication method (the named key, else the default key,
\* else a password read now), then Config with NumProcs = flagProcs.
LoadAuth ==
  /\ mainpc = "l_auth"
  /\ IF PrivateKeyFatal(flags, env)
     THEN Exit(1) /\ UNCHANGED <<auth, configPrompts, numProcs>>
     ELSE IF env.keyReadable
     THEN /\ auth' = <<"publickey">>
          /\ numProcs' = flags.procsFlag
          /\ mainpc' = "execute" /\ UNCHANGED <<exitCode, configPrompts>>
     ELSE /\ configPrompts' = configPrompts + 1
          /\ \E read \in BOOLEAN :
               IF read
               THEN /\ auth' = <<storedPassword>>
                    /\ numProcs' = flags.procsFlag
                    /\ mainpc' = "execute" /\ UNCHANGED exitCode
               ELSE Exit(1) /\ UNCHANGED <<auth, numProcs>>
  /\ UNCHANGED <<flags, env, chanCap, servers, hostKeyCallback, poolVars>>

\* ------------------------------------------------------------ execute

\* The goroutines run while main is in execute's collector loop or its report.
Running == mainpc \in {"collect", "report"}

\* execute, up to the collector loop: threads, wg.Add(threads) (which panics on a
\* negative counter), the workers, the producer goroutine.
ExecuteStart ==
  /\ mainpc = "execute"
  /\ LET t == Threads(numProcs, Len(servers)) IN
       /\ threads' = t
       /\ IF t < 0
          THEN /\ mainpc' = "crashed" /\ exitCode' = 2
               /\ UNCHANGED <<started, wpc, wjob>>
          ELSE /\ started' = t
               /\ wpc' = [w \in 1..t |-> "idle"]
               /\ wjob' = [w \in 1..t |-> NoJob]
               /\ mainpc' = "collect" /\ UNCHANGED exitCode
  /\ UNCHANGED <<flags, env, configPrompts, chanCap, servers, numProcs, hostKeyCallback, auth, prodIdx, jobs,
                 jobsClosed, resps, collected, results, dequeued, contacted, failed>>

\* A channel that takes a value whatever it holds.
HasRoomAlways(q, c) == TRUE

\* A send on a buffered channel goes through when the buffer is not full.
HasRoom(q, c) == Len(q) < c

\* A range loop that sends the first host every time.
JobAtFirst(list, k) == [idx |-> 1, host |-> list[1], err |-> "none"]

\* A range loop that walks the list from its end.
JobAtReversed(list, k) ==
  [idx |-> Len(list) + 1 - k, host |-> list[Len(list) + 1 - k], err |-> "none"]

\* The k-th value the producer's range loop sends.
JobAt(list, k) == [idx |-> k, host |-> list[k], err |-> "none"]

\* The producer goroutine: JobChannel <- host, for each host in order.
Produce ==
  /\ Running
  /\ prodIdx < Len(servers)
  /\ ~jobsClosed
  /\ HasRoom(jobs, chanCap.job)
  /\ jobs' = Append(jobs, JobAt(servers, prodIdx + 1))
  /\ prodIdx' = prodIdx + 1
  /\ UNCHANGED <<flags, env, configPrompts, chanCap, mainpc, exitCode, servers, numProcs, hostKeyCallback,
                 auth, threads, started, jobsClosed, resps, wpc, wjob, collected,
                 results, dequeued, contacted, failed>>

\* A producer that closes the channel while hosts are still to be sent.
CloseJobsEarly ==
  /\ Running
  /\ prodIdx < Len(servers)
  /\ ~jobsClosed
  /\ jobsClosed' = TRUE
  /\ UNCHANGED <<flags, env, configPrompts, chanCap, mainpc, exitCode, servers, numProcs, hostKeyCallback,
                 auth, threads, started, prodIdx, jobs, resps, wpc, wjob, collected,
                 results, dequeued, contacted, failed>>

\* The producer goroutine: close(JobChannel) after the loop.
CloseJobs ==
  /\ Running
  /\ prodIdx = Len(servers)
  /\ ~jobsClosed
  /\ jobsClosed' = TRUE
  /\ UNCHANGED <<flags, env, configPrompts, chanCap, mainpc, exitCode, servers, numProcs, hostKeyCallback,
                 auth, threads, started, prodIdx, jobs, resps, wpc, wjob, collected,
                 results, dequeued, contacted, failed>>

\* A collector that keeps only the last response.
CollectedOverwrite(rs, r) == <<r>>

\* A collector that drops the responses that carry an error.
CollectedOkOnly(rs, r) == IF r.err = "none" THEN Append(rs, r) ELSE rs

\* A collector that puts each result in front of the ones it has.
CollectedPrepend(rs, r) == <<r>> \o rs

\* results = append(results, result)
Collected(rs, r) == Append(rs, r)

\* A collector loop that stops one receive short.
LoopDoneEarly(i, n) == i >= n - 1

\* The collector loop's test, negated: i < len(ServerList) fails.
LoopDone(i, n) == i >= n

\* One round of the collector loop: a receive from ResponseChannel.
Collect ==
  /\ mainpc = "collect"
  /\ ~LoopDone(collected, Len(servers))
  /\ resps /= <<>>
  /\ results' = Collected(results, Head(resps))
  /\ resps' = Tail(resps)
  /\ collected' = collected + 1
  /\ UNCHANGED <<flags, env, configPrompts, chanCap, mainpc, exitCode, servers, numProcs, hostKeyCallback,
                 auth, threads, started, prodIdx, jobs, jobsClosed, wpc, wjob,
                 dequeued, contacted, failed>>

\* The collector loop ends after len(ServerList) receives.
CollectDone ==
  /\ mainpc = "collect"
  /\ LoopDone(collected, Len(servers))
  /\ mainpc' = "report"
  /\ UNCHANGED <<flags, env, configPrompts, chanCap, exitCode, servers, numProcs, hostKeyCallback, auth,
                 poolVars>>

\* The results are printed and main returns.
Report ==
  /\ mainpc = "report"
  /\ mainpc' = "done" /\ exitCode' = 0
  /\ UNCHANGED <<flags, env, configPrompts, chanCap, servers, numProcs, hostKeyCallback, auth, poolVars>>

\* ------------------------------------------------------------ workers

WorkerIds == 1..(MaxLen + 1)

workerFrame == <<flags, env, configPrompts, chanCap, mainpc, exitCode, servers, numProcs, hostKeyCallback,
                 auth, threads, started, prodIdx, jobsClosed, collected, results>>

\* A worker takes the next host off the job queue.
WorkerDequeue(w) ==
  /\ Running /\ w \in DOMAIN wpc
  /\ wpc[w] = "idle"
  /\ jobs /= <<>>
  /\ wjob' = [wjob EXCEPT ![w] = Head(jobs)]
  /\ jobs' = Tail(jobs)
  /\ wpc' = [wpc EXCEPT ![w] = "connecting"]
  /\ dequeued' = Append(dequeued, Head(jobs).idx)
  /\ UNCHANGED <<workerFrame, resps, contacted, failed>>

\* A worker leaves its loop: the job queue is closed and empty.
WorkerExit(w) ==
  /\ Running /\ w \in DOMAIN wpc
  /\ wpc[w] = "idle"
  /\ jobs = <<>> /\ jobsClosed
  /\ wpc' = [wpc EXCEPT ![w] = "exited"]
  /\ UNCHANGED <<workerFrame, jobs, resps, wjob, dequeued, contacted, failed>>

\* Connector.Connect: a session, or a failure (connection, trust,
\* authentication) that becomes the error of this host's response.
WorkerConnect(w) ==
  /\ Running /\ w \in DOMAIN wpc
  /\ wpc[w] = "connecting"
  /\ contacted' = contacted \cup {wjob[w].idx}
  /\ \E ok \in BOOLEAN :
       IF ok THEN wpc' = [wpc EXCEPT ![w] = "executing"] /\ UNCHANGED <<wjob, failed>>
       ELSE /\ wpc' = [wpc EXCEPT ![w] = "reporting"]
            /\ wjob' = [wjob EXCEPT ![w].err = "connect"]
            /\ failed' = failed \cup {wjob[w].idx}
  /\ UNCHANGED <<workerFrame, jobs, resps, dequeued>>

\* Workload.Execute: the output, or an execution error, becomes the response.
WorkerExecute(w) ==
  /\ Running /\ w \in DOMAIN wpc
  /\ wpc[w] = "executing"
  /\ \E ok \in BOOLEAN :
       /\ wjob' = [wjob EXCEPT ![w].err = IF ok THEN "none" ELSE "execute"]
       /\ failed' = IF ok THEN failed ELSE failed \cup {wjob[w].idx}
  /\ wpc' = [wpc EXCEPT ![w] = "reporting"]
  /\ UNCHANGED <<workerFrame, jobs, resps, dequeued, contacted>>

\* The response goes on the response queue and the worker loops.
WorkerReport(w) ==
  /\ Running /\ w \in DOMAIN wpc
  /\ wpc[w] = "reporting"
  /\ HasRoom(resps, chanCap.resp)
  /\ resps' = Append(resps, wjob[w])
  /\ wjob' = [wjob EXCEPT ![w] = NoJob]
  /\ wpc' = [wpc EXCEPT ![w] = "idle"]
  /\ UNCHANGED <<workerFrame, jobs, dequeued, contacted, failed>>

\* A worker that ends abnormally while it holds a host, with no response.
WorkerAbort(w) ==
  /\ Running /\ w \in DOMAIN wpc
  /\ wpc[w] \in {"connecting", "executing"}
  /\ wpc' = [wpc EXCEPT ![w] = "aborted"]
  /\ UNCHANGED <<workerFrame, jobs, resps, wjob, dequeued, contacted, failed>>

\* ------------------------------------------------------ specifications

MainStep ==
  \/ MainHelp
  \/ MainVersion
  \/ MainArgs
  \/ MainRoutines
  \/ MainHostKey
  \/ MainAuth
  \/ MainSelect
  \/ MainScript
  \/ LoadFlags
  \/ LoadArgs
  \/ LoadExecutor
  \/ LoadHostKey
  \/ LoadAuth
  \/ ExecuteStart

Producer == Produce \/ CloseJobs

Collector == Collect \/ CollectDone \/ Report

Worker(w) ==
  \/ WorkerDequeue(w)
  \/ WorkerExit(w)
  \/ WorkerConnect(w)
  \/ WorkerExecute(w)
  \/ WorkerReport(w)

Next ==
  \/ MainStep
  \/ Producer
  \/ Collector
  \/ \E w \in WorkerIds : Worker(w)
  \/ \E w \in WorkerIds : WorkerAbort(w)

Spec == Init /\ [][Next]_vars

CapSpec == CapInit /\ [][Next]_vars

\* The runs in which every per-host step finishes and the goroutines are
\* scheduled fairly.
NextNoAbort ==
  \/ MainStep
  \/ Producer
  \/ Collector
  \/ \E w \in WorkerIds : Worker(w)

Fairness ==
  /\ WF_vars(MainStep)
  /\ WF_vars(Producer)
  /\ WF_vars(Collector)
  /\ \A w \in WorkerIds : WF_vars(Worker(w))

FairSpec == Init /\ [][NextNoAbort]_vars /\ Fairness

FairCapSpec == CapInit /\ [][NextNoAbort]_vars /\ Fairness

\* ------------------------------------------------------------- claims

N == Len(servers)

Min(a, b) == IF a < b THEN a ELSE b

Range(q) == {q[i] : i \in DOMAIN q}

\* Trimming, as the host-list contract words it: the string without its leading
\* and trailing blanks.
RECURSIVE TrimLeft(_)
TrimLeft(s) == IF s /= <<>> /\ Head(s) = " " THEN TrimLeft(Tail(s)) ELSE s

RECURSIVE TrimRight(_)
TrimRight(s) ==
  IF s /= <<>> /\ s[Len(s)] = " " THEN TrimRight(SubSeq(s, 1, Len(s) - 1)) ELSE s

TrimSpace(s) == TrimRight(TrimLeft(s))

\* The workers with an open or opening session.
Busy == Cardinality({w \in DOMAIN wpc : wpc[w] \in {"connecting", "executing"}})

AnyAborted == \E w \in DOMAIN wpc : wpc[w] = "aborted"

AllExited == \A w \in DOMAIN wpc : wpc[w] = "exited"

CollectorEnded == mainpc \in {"report", "done"}

\* Every host-list position has exactly one response in q, for its own host.
OnePerHost(q) ==
  /\ Len(q) = N
  /\ \A k \in 1..N : \E i \in DOMAIN q : q[i].idx = k /\ q[i].host = servers[k]

\* C1: in a run with at least one worker and no abnormal worker end, the
\* collector ends with exactly N responses, one for each host-list element
\* (duplicated addresses counted separately); and once every worker has left
\* its loop, the N responses are all collected or waiting on the response queue.
C1_CollectorGetsEveryHost ==
  /\ CollectorEnded => OnePerHost(results)
  /\ (mainpc = "collect" /\ started >= 1 /\ ~AnyAborted /\ AllExited)
       => OnePerHost(results \o resps)

C1_Witness ==
  /\ mainpc = "done" /\ N = 3 /\ started = 2
  /\ servers[1] = servers[2]
  /\ results[1].idx = 2

\* C2: a failure to connect to or to execute on a host is the error of that
\* host's own response and of no other; the other hosts still get a response
\* each; a worker leaves its loop only because the job queue is closed and
\* empty, never because a host failed.
C2_FailureIsolation ==
  /\ \A r \in Range(results) \cup Range(resps) :
       /\ r.host = servers[r.idx]
       /\ (r.err /= "none") <=> (r.idx \in failed)
  /\ CollectorEnded => OnePerHost(results)
  /\ \A w \in DOMAIN wpc : wpc[w] = "exited" => jobsClosed /\ jobs = <<>>
  /\ (mainpc = "collect" /\ ~AnyAborted /\ AllExited /\ started >= 1)
       => \A k \in 1..N : \E r \in Range(results) \cup Range(resps) : r.idx = k

C2_Witness ==
  /\ mainpc = "done" /\ N = 3
  /\ failed = {1, 2}
  /\ \E i, j, k \in 1..3 :
       /\ results[i].err = "connect" /\ results[j].err = "execute"
       /\ results[k].err = "none" /\ results[k].idx = 3

\* C3: once dispatch has begun, with fair scheduling and every per-host step
\* finishing, the run reaches the reporting step with all results collected.
C3_RunReachesReport ==
  (mainpc = "collect") ~> (mainpc = "report" /\ Len(results) = N)

\* C4: every host-list entry is taken off the job queue exactly once and by one
\* worker: no position is dequeued twice, no two workers hold the same position,
\* and no position is passed over (each is not yet enqueued, in the queue, or
\* dequeued; all are dequeued once the queue is closed and empty).
C4_DequeuedExactlyOnce ==
  /\ \A i, j \in DOMAIN dequeued : i /= j => dequeued[i] /= dequeued[j]
  /\ \A v, w \in DOMAIN wpc :
       (v /= w /\ wjob[v].idx /= 0) => wjob[v].idx /= wjob[w].idx
  /\ Running =>
       Range(dequeued) \cup {jobs[i].idx : i \in DOMAIN jobs} \cup ((prodIdx + 1)..N)
         = 1..N
  /\ (Running /\ jobsClosed /\ jobs = <<>>) => Range(dequeued) = 1..N

C4_Witness ==
  /\ N = 3 /\ Len(dequeued) = 3
  /\ \E v, w \in DOMAIN wpc :
       v /= w /\ wpc[v] = "connecting" /\ wpc[w] = "connecting"

\* C5: the number of workers started is N if procs is -1, and min(procs, N)
\* otherwise.
C5_WorkersStarted ==
  mainpc \in {"collect", "report", "done", "crashed"} =>
    started = IF flags.procsFlag = -1 THEN N ELSE Min(flags.procsFlag, N)

\* C6, as stated: whenever hosts are being processed, their number is at most
\* the configured procs value and at most the effective worker count.
C6_BusyAtMostProcs ==
  Busy > 0 => Busy <= flags.procsFlag /\ Busy <= threads

\* C6, amended: the number of hosts being processed at once is at most the
\* number of workers started, hence at most procs when procs is not negative and
\* at most N when procs is -1.
C6_BusyAtMostStarted ==
  /\ Busy <= started
  /\ flags.procsFlag >= 0 => Busy <= flags.procsFlag
  /\ flags.procsFlag = -1 => Busy <= N

C6_Witness ==
  /\ flags.procsFlag = 2 /\ N = 3 /\ Busy = 2
  /\ jobs /= <<>>

\* C7: the host list is the sequence of the comma-separated pieces of the raw
\* string, in order, each with its surrounding whitespace trimmed.
C7_ParseTrimsEntries ==
  servers /= <<>> =>
    LET pieces == SplitFrom(env.hostArg, 1, <<>>) IN
      servers = [i \in 1..Len(pieces) |-> TrimSpace(pieces[i])]

\* C8: an empty or entirely-whitespace host-list argument is a parse error: the
\* run goes no further than the argument check and exits with code 3.
C8_BlankInputRejected ==
  (/\ ~flags.helpFlag /\ ~flags.versionFlag /\ flags.userFlag
   /\ env.nargs >= 1 /\ TrimSpace(env.hostArg) = <<>>
   /\ mainpc \notin {"help", "version", "args", "l_flags", "l_args"})
    => mainpc = "exited" /\ exitCode = 3

\* C9: the exit code is 0 for help, version and a successful run, 2 when the
\* host-list argument is missing, 3 when the host list does not parse (an empty
\* or blank argument) or when neither script nor commands are given, whatever
\* the rest of the configuration.
C9_ExitCodes ==
  mainpc \in {"exited", "done", "crashed"} =>
    /\ (flags.helpFlag \/ flags.versionFlag) => exitCode = 0
    /\ mainpc = "done" => exitCode = 0
    /\ (~flags.helpFlag /\ ~flags.versionFlag) =>
         /\ env.nargs = 0 => exitCode = 2
         /\ (env.nargs >= 1 /\ TrimSpace(env.hostArg) = <<>>) => exitCode = 3
         /\ (env.nargs = 1 /\ ~flags.scriptFlag) => exitCode = 3

\* C10: in a run with a pre-flight error (host list missing, neither script
\* nor commands, known-hosts file unparsable under strict checking, identity
\* file unusable, script unreadable), and in every run that usage or log.Fatal
\* ends, no worker is started, no host is enqueued and no host is contacted.
NotDispatched ==
  /\ started = 0 /\ wpc = <<>>
  /\ prodIdx = 0 /\ jobs = <<>> /\ ~jobsClosed
  /\ contacted = {} /\ dequeued = <<>>
  /\ mainpc \notin {"collect", "report", "done"}

PreflightError ==
  \/ env.nargs = 0
  \/ env.nargs = 1 /\ ~flags.scriptFlag
  \/ ~flags.strictHostCheckFlag /\ ~env.knownHostsOk
  \/ flags.identityFileFlag /\ ~env.keyReadable
  \/ env.keyReadable /\ ~env.keyParsable
  \/ flags.scriptFlag /\ ~env.scriptReadable

FatalInAuth ==
  /\ mainpc = "exited" /\ hostKeyCallback /= "unset" /\ auth = <<>>
  /\ configPrompts = 0

\* C11: an identity file that cannot be read or parsed ends the run only when
\* the user named the file; when the default identity file cannot be read or
\* parsed, the run goes on without the key method.
C11_DefaultKeyFailureNotFatal ==
  /\ FatalInAuth => flags.identityFileFlag
  /\ (auth /= <<>> /\ ~flags.identityFileFlag /\ ~(env.keyReadable /\ env.keyParsable))
       => "publickey" \notin Range(auth)

\* The positions of q whose entry is a method (not nil), in order.
RECURSIVE Methods(_)
Methods(q) ==
  IF q = <<>> THEN <<>>
  ELSE IF Head(q) = "nil" THEN Methods(Tail(q))
  ELSE <<Head(q)>> \o Methods(Tail(q))

\* C12: the method list handed to the connections holds only methods that
\* could be produced, in the order agent, identity file, password; a method
\* that could not be produced is left out, not present as an empty entry, and
\* the password method is last.
C12_AuthListProducibleOnly ==
  (auth /= <<>> /\ env.driver = "main") =>
    /\ "nil" \notin Range(auth)
    /\ auth[Len(auth)] = "password"
    /\ auth = Methods(<<sshAgent(env), sshPrivateKey(flags, env), "password">>)


\* One connection attempt offered the method list q to a host accepting the
\* methods in acc: the methods are tried in order up to the first success; an
\* empty entry is not a method; trying the interactive password method calls
\* its provider, which prompts.
RECURSIVE Negotiate(_, _, _)
Negotiate(q, acc, a) ==
  IF q = <<>> THEN a
  ELSE IF Head(q) = "nil" THEN Negotiate(Tail(q), acc, a)
  ELSE LET b == [tried   |-> Append(a.tried, Head(q)),
                 prompts |-> a.prompts + (IF Head(q) = sshPassword THEN 1 ELSE 0),
                 ok      |-> Head(q) \in acc]
       IN IF b.ok THEN b ELSE Negotiate(Tail(q), acc, b)

AuthKinds == {"agent", "publickey", sshPassword, storedPassword}

Attempt(acc) == Negotiate(auth, acc, [tried |-> <<>>, prompts |-> 0, ok |-> FALSE])

\* C13: the interactive password prompt is never invoked at configuration time;
\* in a connection attempt it is invoked at most once, and only when every
\* method before it in the list was tried and did not succeed.
C13_PromptOnlyWhenNegotiationNeedsIt ==
  /\ configPrompts = 0
  /\ \A acc \in SUBSET AuthKinds :
       LET a == Attempt(acc) IN
       /\ a.prompts <= 1
       /\ a.prompts = 1 =>
            \A k \in 1..Len(auth) :
              (auth[k] \notin {"nil", sshPassword}) =>
                 auth[k] \in Range(a.tried) /\ auth[k] \notin acc

\* execute was entered: workers were started, or starting them failed.
Dispatched == mainpc \in {"collect", "report", "done", "crashed"}

\* C19: in every run that reaches dispatch (here with named hosts only),
\* whatever the procs value, at least one worker and at most N workers are
\* started.
C19_WorkersStartedWithinOneAndN ==
  (Dispatched /\ \A k \in 1..N : servers[k] /= <<>>) => started >= 1 /\ started <= N

\* The positions, in the host list, of the jobs in a queue.
IdxOf(q) == [k \in 1..Len(q) |-> q[k].idx]

\* What has gone through the job queue so far, oldest first.
Enqueued == dequeued \o IdxOf(jobs)

ProducerInOrder ==
  /\ prodIdx \in 0..N
  /\ Enqueued = [k \in 1..prodIdx |-> k]
  /\ \A k \in 1..Len(jobs) : jobs[k].host = servers[jobs[k].idx]
  /\ \A w \in DOMAIN wjob : wjob[w].idx /= 0 => wjob[w].host = servers[wjob[w].idx]
  /\ jobsClosed => prodIdx = N
  /\ (jobsClosed /\ jobs = <<>>) => dequeued = [k \in 1..N |-> k]

CloseIsFinal ==
  /\ (~jobsClosed /\ jobsClosed') => prodIdx = N /\ Enqueued' = Enqueued
  /\ jobsClosed => jobsClosed' /\ Enqueued' = Enqueued

\* C14: the producer enqueues every host in host-list order and closes the
\* queue once, after the last host; nothing is enqueued after the close, and
\* the hosts taken off the queue over the run are the host list in order.
C14_SingleProducerInOrder == []ProducerInOrder /\ [][CloseIsFinal]_vars

C14_Witness ==
  /\ N = 2 /\ started = 2 /\ jobsClosed /\ jobs = <<>>
  /\ dequeued = <<1, 2>>
  /\ servers[1] /= servers[2]

CollectorBlocked == mainpc = "collect" /\ collected < N

\* C15: once a worker has ended abnormally between taking a host and
\* responding for it, the collector is in its loop short of N receives and
\* stays there: the run never reaches the report.
C15_AbortBlocksCollector ==
  /\ [](AnyAborted => CollectorBlocked)
  /\ [][AnyAborted => AnyAborted' /\ CollectorBlocked']_vars

C15_Witness ==
  /\ AnyAborted /\ N = 2 /\ started = 2
  /\ jobsClosed /\ jobs = <<>> /\ resps = <<>>
  /\ collected = N - 1

\* The responses put on the response queue so far, in the order they were put:
\* those already collected, then those still queued.
Pushed == IdxOf(results) \o IdxOf(resps)

ResultsAreCompletionOrder ==
  /\ started = 1 => Pushed = [k \in 1..Len(Pushed) |-> k]
  /\ CollectorEnded => resps = <<>> /\ Len(results) = N

PushedGrowsAtEnd ==
  \/ Pushed' = Pushed
  \/ /\ Len(Pushed') = Len(Pushed) + 1
     /\ SubSeq(Pushed', 1, Len(Pushed)) = Pushed
     /\ results' = results

\* C16: the result sequence is the sequence in which responses were put on the
\* response queue; with one worker that is host-list order (with two or more
\* workers other orders happen: C16_Witness).
C16_ResultsInCompletionOrder ==
  []ResultsAreCompletionOrder /\ [][PushedGrowsAtEnd]_vars

C16_Witness ==
  /\ mainpc = "done" /\ started = 2
  /\ IdxOf(results) = <<2, 1>>
  /\ servers[1] /= servers[2]

AnyExited == \E w \in DOMAIN wpc : wpc[w] = "exited"

\* A worker has terminated: it left its loop, or main returned and the process
\* ended with it (execute does not wait for the workers).
WorkerTerminated(w) == w \in DOMAIN wpc /\ (wpc[w] = "exited" \/ mainpc = "done")

ExitOnlyWhenDrained ==
  AnyExited => jobsClosed /\ jobs = <<>> /\ prodIdx = N /\ Len(dequeued) = N

LeavesLoopOnClosedEmpty ==
  \A w \in DOMAIN wpc :
    (wpc[w] /= "exited" /\ wpc'[w] = "exited") =>
       wpc[w] = "idle" /\ jobsClosed /\ jobs = <<>>

Held == Cardinality({w \in DOMAIN wpc : wpc[w] \in {"connecting", "executing", "reporting"}})

\* C20: while no worker has ended abnormally, every host is in exactly one
\* place (not yet enqueued, in the job queue, held by a worker, in the
\* response queue, collected), and neither queue holds more than its capacity.
C20_HostsConserved ==
  /\ ~AnyAborted => (N - prodIdx) + Len(jobs) + Held + Len(resps) + collected = N
  /\ Len(jobs) <= chanCap.job
  /\ Len(resps) <= chanCap.resp

C20_Witness ==
  /\ ~AnyAborted /\ N > chanCap.job /\ N > chanCap.resp
  /\ Len(jobs) = chanCap.job /\ Len(resps) = chanCap.resp
  /\ \E w \in DOMAIN wpc : wpc[w] = "reporting"

\* Every host was enqueued and answered for, and the queue was closed (or main
\* returned first and the process ended before the producer's close).
ProducerAndCollectorFinished ==
  prodIdx = N /\ collected = N /\ (jobsClosed \/ mainpc = "done")

\* C18: whatever the host count, producer, workers and collector do not
\* deadlock: once dispatch has begun the producer eventually has enqueued every
\* host and closed the queue, and the collector eventually has N responses.
C18_NoDeadlock == (mainpc = "collect") ~> ProducerAndCollectorFinished

\* The same with at least one worker started.
C18_NoDeadlockWithWorkers ==
  (mainpc = "collect" /\ started >= 1) ~> ProducerAndCollectorFinished

====
